---- MODULE Spec2Model ----
(***************************************************************************)
(* ImageDownloader.download_images of markdown_articles_tool, in its two   *)
(* versions: src/images_extractor.py ("extractor") and                     *)
(* src/markdown_toolset/image_downloader.py ("toolset").                   *)
(*                                                                         *)
(* Strings are modelled as sequences of tokens, the pieces between "/":    *)
(* "http://a/x.png" is <<"http:", "a", "x.png">>, so that                  *)
(* f'{base}/{ref}' is the concatenation base \o ref.                       *)
(* A filename is a sequence of pieces joined by "_": "x.png" is            *)
(* <<"x.png">> and f'{md5}_{name}' is <<md5>> \o name.                     *)
(***************************************************************************)
EXTENDS Integers, Sequences, FiniteSets, TLC

VARIABLES
    variant,                \* which of the two source files runs
    skip_list,              \* self._skip_list
    skip_all_errors,        \* self._skip_all_errors
    deduplication,          \* self._deduplication / self._deduplicator is not None
    process_local_images,   \* self._process_local_images (toolset)
    article_base_url,       \* self._article_base_url (toolset)
    images,                 \* the argument of download_images
    img_num,                \* number of list elements the loop has consumed
    replacement_mapping,    \* the dict, as its items() in insertion order
    hash_to_path_mapping,   \* content digest -> filename
    writes,                 \* the _write_image calls so far: <<filename, data>>
    pc,                     \* "loop", "returned" or "raised"; inside _download_image:
                            \* "retry", "status" or "except"
    log,                    \* what happened to each consumed list element
    img_public_path,        \* self._img_public_path
    attempts,               \* the requests.get calls made for the current reference
    calls                   \* number of download_images calls on this ImageDownloader

vars == <<variant, skip_list, skip_all_errors, deduplication, process_local_images,
          article_base_url, images, img_num, replacement_mapping,
          hash_to_path_mapping, writes, pc, log, img_public_path, attempts, calls>>

\* What an iteration of the loop leaves alone.
config == <<variant, skip_list, skip_all_errors, deduplication, process_local_images,
            article_base_url, images, img_public_path, calls>>

(***************************************************************************)
(* Bounds and the universe of inputs.                                      *)
(***************************************************************************)
MaxLen == 3

U1 == <<"http:", "a", "x.png">>
U2 == <<"http:", "b", "x.png">>
U3 == <<"http:", "c", "x.png">>
L1 == <<"x.png">>
BaseUrl == <<"http:", "c">>

Refs == {U1, U2, U3, L1}
Contents == {"c1", "c2"}
NoName == <<>>
NoContent == "none"

img_dir_name == "images"

\* The default of img_public_path: '' in images_extractor.py, None in image_downloader.py.
NotSet(v) == IF v = "extractor" THEN "" ELSE "None"
PublicPaths(v) == {NotSet(v), "public"}

RECURSIVE SeqsUpTo(_, _)
SeqsUpTo(S, n) ==
    IF n = 0 THEN {<<>>}
    ELSE LET shorter == SeqsUpTo(S, n - 1)
         IN  shorter \cup {Append(s, x) : s \in {t \in shorter : Len(t) = n - 1}, x \in S}

(***************************************************************************)
(* Pure helpers.                                                           *)
(***************************************************************************)
\* hashlib.md5(img_url.encode()).hexdigest(): one token, different for different urls.
Md5(url) == <<"md5", url>>

\* hashlib.sha256(image_content).digest()
Sha256(content) == <<"sha256", content>>

\* The filenames a response can yield: "x.png" and "<md5 of U3>_x.png".
RawNames == {<<"x.png">>, <<Md5(U3), "x.png">>}

Keys(mapping) == {mapping[i][1] : i \in 1..Len(mapping)}

\* dict.setdefault(key, value): the first value of a key stays.
setdefault(mapping, key, value) ==
    IF key \in Keys(mapping) THEN mapping ELSE Append(mapping, <<key, value>>)

\* f'{hashlib.md5(img_url.encode()).hexdigest()}_{img_filename}'
HashPrefixed(img_url, img_filename) == <<Md5(img_url)>> \o img_filename

\* ImageDownloader._is_allowed_url_prefix: url.startswith('http') or 'ftp'.
is_allowed_url_prefix(url) ==
    /\ Len(url) > 0
    /\ url[1] \in {"http:", "https:", "ftp:"}

\* www_tools.is_url: the reference has a recognized URL scheme.
is_url(url) ==
    /\ Len(url) > 0
    /\ url[1] \in {"http:", "https:", "ftp:"}

\* Path(image_url).name
PathName(image_url) == <<image_url[Len(image_url)]>>

\* A lookup of the document directory that forgets the public-path override.
IE_document_img_path_no_override(img_filename) ==
    [type |-> "str", dir |-> img_dir_name, name |-> img_filename]

\* os.path.join(img_public_path or img_dir_name, img_filename): a str.
IE_document_img_path(img_filename) ==
    [type |-> "str",
     dir |-> IF img_public_path # "" THEN img_public_path ELSE img_dir_name,
     name |-> img_filename]

\* ImageDownloader._get_document_img_path: a pathlib.Path.
ID_get_document_img_path(image_filename) ==
    [type |-> "Path",
     dir |-> IF img_public_path # "None" THEN img_public_path ELSE img_dir_name,
     name |-> image_filename]

\* '/'.join(document_img_path.parts): a str.
JoinParts(document_img_path) ==
    [type |-> "str", dir |-> document_img_path.dir, name |-> document_img_path.name]

\* images_extractor.ImageDownloader._correct_paths: <<img_filename, document_img_path>>.
IE_correct_paths(mapping, document_img_path, img_url, img_filename) ==
    IF \E i \in 1..Len(mapping) :
            document_img_path = mapping[i][2] /\ img_url # mapping[i][1]
    THEN <<HashPrefixed(img_url, img_filename),
           IE_document_img_path(HashPrefixed(img_url, img_filename))>>
    ELSE <<img_filename, document_img_path>>

\* image_downloader.ImageDownloader._correct_paths: document_img_path is a Path and
\* the values of the mapping are str, and a Path never equals a str.
ID_correct_paths(mapping, document_img_path, img_url, image_filename) ==
    IF \E i \in 1..Len(mapping) :
            document_img_path = mapping[i][2] /\ img_url # mapping[i][1]
    THEN <<HashPrefixed(img_url, image_filename),
           ID_get_document_img_path(HashPrefixed(img_url, image_filename))>>
    ELSE <<image_filename, document_img_path>>

\* images_extractor.py lines 126-134: the digest lookup and registration, as
\* (found, filename, table after).
IE_dedup(table, img_filename, image_content) ==
    IF Sha256(image_content) \in DOMAIN table
    THEN [found |-> TRUE, filename |-> table[Sha256(image_content)], table |-> table]
    ELSE [found |-> FALSE, filename |-> img_filename,
          table |-> [d \in DOMAIN table \cup {Sha256(image_content)} |->
                        IF d = Sha256(image_content) THEN img_filename ELSE table[d]]]

\* Deduplicator.deduplicate(reference, proposed_filename, content_bytes, mapping):
\* (reuse, filename), and the digest table after the call.
Deduplicator_deduplicate(table, proposed_filename, content_bytes) ==
    IF Sha256(content_bytes) \in DOMAIN table
    THEN [reuse |-> TRUE, filename |-> table[Sha256(content_bytes)], table |-> table]
    ELSE [reuse |-> FALSE, filename |-> proposed_filename,
          table |-> [d \in DOMAIN table \cup {Sha256(content_bytes)} |->
                        IF d = Sha256(content_bytes) THEN proposed_filename
                        ELSE table[d]]]

\* The file at images_dir / name after the writes so far (NoContent: no such file).
RECURSIVE FileContent(_, _)
FileContent(ws, name) ==
    IF ws = <<>> THEN NoContent
    ELSE IF ws[Len(ws)][1] = name THEN ws[Len(ws)][2]
    ELSE FileContent(SubSeq(ws, 1, Len(ws) - 1), name)

(***************************************************************************)
(* Initial state: a constructed ImageDownloader and a call of              *)
(* download_images(images) that has reached its loop.                      *)
(***************************************************************************)
Init ==
    /\ variant \in {"extractor", "toolset"}
    /\ skip_list \in {{}, {U3}}
    /\ skip_all_errors \in BOOLEAN
    /\ deduplication \in BOOLEAN
    /\ process_local_images \in IF variant = "toolset" THEN BOOLEAN ELSE {FALSE}
    /\ article_base_url \in IF variant = "toolset" THEN {<<>>, BaseUrl} ELSE {<<>>}
    /\ images \in SeqsUpTo(Refs, MaxLen)
    /\ img_num = 0
    /\ replacement_mapping = <<>>
    /\ hash_to_path_mapping = <<>>
    /\ writes = <<>>
    /\ pc = "loop"
    /\ log = <<>>
    /\ img_public_path = NotSet(variant)
    /\ attempts = <<>>
    /\ calls = 1

(***************************************************************************)
(* One iteration of the loop, by the branch it takes.                      *)
(***************************************************************************)
InLoop == pc = "loop" /\ img_num < Len(images)

img_url == images[img_num + 1]

\* The loop body with its assert stripped.
assert_not_downloaded_stripped(url, mapping) == TRUE

\* The assert at the head of the loop body.
assert_not_downloaded(url, mapping) == url \notin Keys(mapping)

\* A loop that gives up no reference as incorrect.
skipped_as_incorrect_never == FALSE

\* Whether the reference is given up as "incorrect URL".
skipped_as_incorrect ==
    IF variant = "extractor"
    THEN ~is_allowed_url_prefix(img_url)
    ELSE ~is_url(img_url) /\ ~process_local_images /\ article_base_url = <<>>

\* image_url after the toolset's base-URL rewrite.
image_url ==
    IF variant = "toolset" /\ ~is_url(img_url) /\ ~process_local_images
       /\ article_base_url # <<>>
    THEN article_base_url \o img_url
    ELSE img_url

\* image_path_is_url, computed before the rewrite.
image_path_is_url == IF variant = "extractor" THEN TRUE ELSE is_url(img_url)

\* The filenames the fetch or the local read can come back with.
filenames == IF image_path_is_url THEN RawNames ELSE {PathName(image_url)}

\* Which of the two ways the content is obtained by: _get_remote_image (the
\* download) when image_path_is_url, else _get_local_image (a file read).
channel == IF image_path_is_url THEN "remote" ELSE "local"

\* An except branch that swallows every failure.
on_fetch_error_always_continue(skip_all) == "continue"

\* An except branch that re-raises every failure.
on_fetch_error_always_raise(skip_all) == "raise"

\* The except branch of the fetch: "continue" or "raise".
on_fetch_error(skip_all) == IF skip_all THEN "continue" ELSE "raise"

Entry(outcome, key, raw, content, name) ==
    [outcome |-> outcome, ref |-> img_url, key |-> key, raw |-> raw,
     content |-> content, name |-> name,
     via |-> IF outcome \in {"failed", "stored", "reused", "dropped", "write_failed"}
             THEN channel ELSE "none",
     attempts |-> attempts]

Continue(entry) ==
    /\ img_num' = img_num + 1
    /\ log' = Append(log, entry)
    /\ attempts' = <<>>
    /\ pc' = "loop"

Raise(entry) ==
    /\ img_num' = img_num + 1
    /\ log' = Append(log, entry)
    /\ attempts' = <<>>
    /\ pc' = "raised"

AssertionFails ==
    /\ InLoop
    /\ ~assert_not_downloaded(img_url, replacement_mapping)
    /\ Raise(Entry("assert", img_url, NoName, NoContent, NoName))
    /\ UNCHANGED <<config, replacement_mapping, hash_to_path_mapping, writes>>

SkipListed ==
    /\ InLoop
    /\ assert_not_downloaded(img_url, replacement_mapping)
    /\ img_url \in skip_list
    /\ Continue(Entry("skip_list", img_url, NoName, NoContent, NoName))
    /\ UNCHANGED <<config, replacement_mapping, hash_to_path_mapping, writes>>

SkipIncorrect ==
    /\ InLoop
    /\ assert_not_downloaded(img_url, replacement_mapping)
    /\ img_url \notin skip_list
    /\ skipped_as_incorrect
    /\ Continue(Entry("incorrect", img_url, NoName, NoContent, NoName))
    /\ UNCHANGED <<config, replacement_mapping, hash_to_path_mapping, writes>>

Fetching ==
    /\ InLoop
    /\ assert_not_downloaded(img_url, replacement_mapping)
    /\ img_url \notin skip_list
    /\ ~skipped_as_incorrect

FetchFails ==
    /\ Fetching
    /\ IF on_fetch_error(skip_all_errors) = "continue"
       THEN Continue(Entry("failed", image_url, NoName, NoContent, NoName))
       ELSE Raise(Entry("failed", image_url, NoName, NoContent, NoName))
    /\ UNCHANGED <<config, replacement_mapping, hash_to_path_mapping, writes>>

\* The ways a _write_image call can end: the file written, open() raising (nothing
\* on disk changes), or write() raising after open() truncated the file.
WriteOutcomes == {"ok", "open_failed", "write_failed"}

\* _write_image(path, data) ending as w, on the history of writes.
write_image(ws, name, data, w) ==
    CASE w = "ok" -> Append(ws, <<name, data>>)
      [] w = "open_failed" -> ws
      [] w = "write_failed" -> Append(ws, <<name, "partial">>)

\* A store whose write sits inside the try of the fetch: under "skip all errors" a
\* failed write is logged and the loop goes on.
IE_store_w_caught(filename, content, raw, w) ==
    LET cp == IE_correct_paths(replacement_mapping, IE_document_img_path(filename),
                               image_url, filename)
    IN  /\ replacement_mapping' = setdefault(replacement_mapping, image_url, cp[2])
        /\ writes' = write_image(writes, cp[1], content, w)
        /\ IF w = "ok"
           THEN Continue(Entry("stored", image_url, raw, content, cp[1]))
           ELSE IF skip_all_errors
           THEN Continue(Entry("write_failed", image_url, raw, content, cp[1]))
           ELSE Raise(Entry("write_failed", image_url, raw, content, cp[1]))

\* images_extractor.py lines 136-143, the write ending as w: the entry is recorded
\* before the write, and an exception of the write leaves the function.
IE_store_w(filename, content, raw, w) ==
    LET cp == IE_correct_paths(replacement_mapping, IE_document_img_path(filename),
                               image_url, filename)
    IN  /\ replacement_mapping' = setdefault(replacement_mapping, image_url, cp[2])
        /\ writes' = write_image(writes, cp[1], content, w)
        /\ IF w = "ok"
           THEN Continue(Entry("stored", image_url, raw, content, cp[1]))
           ELSE Raise(Entry("write_failed", image_url, raw, content, cp[1]))

\* images_extractor.py lines 136-143.
IE_store(filename, content, raw) == IE_store_w(filename, content, raw, "ok")

\* image_downloader.py lines 101-108, the write ending as w.
ID_store_w(filename, content, raw, w) ==
    LET cp == ID_correct_paths(replacement_mapping, ID_get_document_img_path(filename),
                               image_url, filename)
    IN  /\ replacement_mapping' = setdefault(replacement_mapping, image_url,
                                             JoinParts(cp[2]))
        /\ writes' = write_image(writes, cp[1], content, w)
        /\ IF w = "ok"
           THEN Continue(Entry("stored", image_url, raw, content, cp[1]))
           ELSE Raise(Entry("write_failed", image_url, raw, content, cp[1]))

\* image_downloader.py lines 101-108.
ID_store(filename, content, raw) == ID_store_w(filename, content, raw, "ok")

\* images_extractor.py lines 121-143: the rest of an iteration once the response is
\* there, with the write ending in one of the ways of W.
IE_ProcessBody(W) ==
    \E filename \in filenames, content \in Contents, w \in W :
        IF deduplication
        THEN LET d == IE_dedup(hash_to_path_mapping, filename, content)
             IN  /\ hash_to_path_mapping' = d.table
                 /\ IF d.found
                    THEN /\ replacement_mapping' =
                                setdefault(replacement_mapping, image_url,
                                           IE_document_img_path(d.filename))
                         /\ writes' = writes
                         /\ Continue(Entry("reused", image_url, filename, content,
                                           d.filename))
                    ELSE IE_store_w(filename, content, filename, w)
        ELSE /\ hash_to_path_mapping' = hash_to_path_mapping
             /\ IE_store_w(filename, content, filename, w)

\* image_downloader.py lines 84-108: an iteration whose fetch or read succeeded,
\* with the write ending in one of the ways of W.
ID_ProcessBody(W) ==
    \E filename \in filenames, content \in Contents, w \in W :
        IF deduplication
        THEN LET d == Deduplicator_deduplicate(hash_to_path_mapping, filename, content)
             IN  /\ hash_to_path_mapping' = d.table
                 /\ IF ~d.reuse
                    THEN /\ UNCHANGED <<replacement_mapping, writes>>
                         /\ Continue(Entry("dropped", image_url, filename, content,
                                           NoName))
                    ELSE ID_store_w(d.filename, content, filename, w)
        ELSE /\ hash_to_path_mapping' = hash_to_path_mapping
             /\ ID_store_w(filename, content, filename, w)

\* images_extractor.py, one iteration whose download succeeded.
IE_Process ==
    /\ Fetching
    /\ variant = "extractor"
    /\ IE_ProcessBody({"ok"})
    /\ UNCHANGED config

\* image_downloader.py, one iteration whose fetch or read succeeded.
ID_Process ==
    /\ Fetching
    /\ variant = "toolset"
    /\ ID_ProcessBody({"ok"})
    /\ UNCHANGED config

Return ==
    /\ pc = "loop"
    /\ img_num = Len(images)
    /\ pc' = "returned"
    /\ UNCHANGED <<config, img_num, replacement_mapping, hash_to_path_mapping,
                   writes, log, attempts>>

Next ==
    \/ AssertionFails
    \/ SkipListed
    \/ SkipIncorrect
    \/ FetchFails
    \/ IE_Process
    \/ ID_Process
    \/ Return

Spec == Init /\ [][Next]_vars

(***************************************************************************)
(* The same loop with its input and output in steps: the requests.get      *)
(* calls of images_extractor.py's _download_image one by one, and          *)
(* _write_image calls that can raise.                                      *)
(***************************************************************************)
RefsIO == {U1, U3, L1}

\* What a requests.get call can end as: a response with a status code, or an
\* exception.
Responses == {"200", "404"}
Exceptions == {"SSLError", "ConnectionError"}
GetResults == Responses \cup Exceptions

\* An except clause that catches every exception of the first get.
retried_any_exception(result) == result \in Exceptions

\* _download_image line 155: the exception of the first get that is caught.
retried(result) == result = "SSLError"

\* _download_image line 160.
status_ok(status_code) == status_code = "200"

InitIO ==
    /\ variant \in {"extractor", "toolset"}
    /\ skip_list \in {{}, {U3}}
    /\ skip_all_errors \in BOOLEAN
    /\ deduplication \in BOOLEAN
    /\ process_local_images \in IF variant = "toolset" THEN BOOLEAN ELSE {FALSE}
    /\ article_base_url \in IF variant = "toolset" THEN {<<>>, BaseUrl} ELSE {<<>>}
    /\ images \in SeqsUpTo(RefsIO, MaxLen)
    /\ img_num = 0
    /\ replacement_mapping = <<>>
    /\ hash_to_path_mapping = <<>>
    /\ writes = <<>>
    /\ pc = "loop"
    /\ log = <<>>
    /\ img_public_path \in PublicPaths(variant)
    /\ attempts = <<>>
    /\ calls = 1

\* _download_image line 154: the first requests.get, with certificate verification.
DI_Get ==
    /\ Fetching
    /\ variant = "extractor"
    /\ \E result \in GetResults :
        /\ attempts' = <<[verify |-> TRUE, result |-> result]>>
        /\ pc' = IF retried(result) THEN "retry"
                 ELSE IF result \in Exceptions THEN "except"
                 ELSE "status"
    /\ UNCHANGED <<config, img_num, replacement_mapping, hash_to_path_mapping,
                   writes, log>>

\* _download_image lines 155-158: the second requests.get, with verify=False, whose
\* exceptions nothing in _download_image catches.
DI_Retry ==
    /\ pc = "retry"
    /\ \E result \in GetResults :
        /\ attempts' = Append(attempts, [verify |-> FALSE, result |-> result])
        /\ pc' = IF result \in Exceptions THEN "except" ELSE "status"
    /\ UNCHANGED <<config, img_num, replacement_mapping, hash_to_path_mapping,
                   writes, log>>

\* _download_image lines 160-161: a status other than 200 raises OSError.
DI_BadStatus ==
    /\ pc = "status"
    /\ ~status_ok(attempts[Len(attempts)].result)
    /\ pc' = "except"
    /\ UNCHANGED <<config, img_num, replacement_mapping, hash_to_path_mapping,
                   writes, log, attempts>>

\* images_extractor.py lines 114-119: the except branch around _download_image.
IE_Except ==
    /\ pc = "except"
    /\ IF on_fetch_error(skip_all_errors) = "continue"
       THEN Continue(Entry("failed", image_url, NoName, NoContent, NoName))
       ELSE Raise(Entry("failed", image_url, NoName, NoContent, NoName))
    /\ UNCHANGED <<config, replacement_mapping, hash_to_path_mapping, writes>>

\* images_extractor.py lines 163 and 121-143: the response is returned and the
\* iteration goes on with it.
IE_ProcessResponse ==
    /\ pc = "status"
    /\ status_ok(attempts[Len(attempts)].result)
    /\ IE_ProcessBody(WriteOutcomes)
    /\ UNCHANGED config

\* image_downloader.py lines 87-93.
ID_FetchFails ==
    /\ variant = "toolset"
    /\ FetchFails

\* image_downloader.py lines 84-108, _write_image possibly raising.
ID_ProcessWrite ==
    /\ Fetching
    /\ variant = "toolset"
    /\ ID_ProcessBody(WriteOutcomes)
    /\ UNCHANGED config

NextIO ==
    \/ AssertionFails
    \/ SkipListed
    \/ SkipIncorrect
    \/ DI_Get
    \/ DI_Retry
    \/ DI_BadStatus
    \/ IE_Except
    \/ IE_ProcessResponse
    \/ ID_FetchFails
    \/ ID_ProcessWrite
    \/ Return

SpecIO == InitIO /\ [][NextIO]_vars


(***************************************************************************)
(* download_images called again on the same ImageDownloader, with           *)
(* deduplication enabled.                                                  *)
(***************************************************************************)
MaxCalls == 2

RefsAgain == {U1, U3, L1}

\* A digest table that outlives the call.
IE_hash_to_path_mapping_kept(table) == table

\* images_extractor.py line 84: hash_to_path_mapping = {} at the start of a call.
IE_hash_to_path_mapping_at_call(table) == <<>>

\* The Deduplicator's digest table at the start of a call: scoped to one run.
Deduplicator_table_at_call(table) == <<>>

InitAgain ==
    /\ variant \in {"extractor", "toolset"}
    /\ skip_list = {U3}
    /\ skip_all_errors \in BOOLEAN
    /\ deduplication = TRUE
    /\ process_local_images = FALSE
    /\ article_base_url = <<>>
    /\ images \in SeqsUpTo(RefsAgain, MaxLen)
    /\ img_num = 0
    /\ replacement_mapping = <<>>
    /\ hash_to_path_mapping = <<>>
    /\ writes = <<>>
    /\ pc = "loop"
    /\ log = <<>>
    /\ img_public_path = NotSet(variant)
    /\ attempts = <<>>
    /\ calls = 1

\* The caller calls download_images once more, after the call before returned or
\* raised: lines 83-97 of images_extractor.py, 54-64 of image_downloader.py. The
\* files of the call before are still on disk.
CallAgain ==
    /\ pc \in {"returned", "raised"}
    /\ calls < MaxCalls
    /\ calls' = calls + 1
    /\ images' \in SeqsUpTo(RefsAgain, MaxLen)
    /\ replacement_mapping' = <<>>
    /\ hash_to_path_mapping' =
          IF variant = "extractor"
          THEN IE_hash_to_path_mapping_at_call(hash_to_path_mapping)
          ELSE Deduplicator_table_at_call(hash_to_path_mapping)
    /\ img_num' = 0
    /\ log' = <<>>
    /\ attempts' = <<>>
    /\ pc' = "loop"
    /\ UNCHANGED <<variant, skip_list, skip_all_errors, deduplication,
                   process_local_images, article_base_url, img_public_path, writes>>

NextAgain ==
    \/ AssertionFails
    \/ SkipListed
    \/ SkipIncorrect
    \/ FetchFails
    \/ IE_Process
    \/ ID_Process
    \/ Return
    \/ CallAgain

SpecAgain == InitAgain /\ [][NextAgain]_vars

TypeOK ==
    /\ pc \in {"loop", "returned", "raised", "retry", "status", "except"}
    /\ img_num \in 0..Len(images)
    /\ Len(log) = img_num
(***************************************************************************)
(* Vocabulary of the properties.                                           *)
(***************************************************************************)
Returned == pc = "returned"

Positions == 1..Len(log)

\* The list elements whose fetch or local read succeeded.
FetchedOk(i) == log[i].outcome \in {"stored", "reused", "dropped"}

\* The list elements for which a fetch or a local read was attempted.
FetchAttempted(i) == FetchedOk(i) \/ log[i].outcome = "failed"

HasKey(k) == k \in Keys(replacement_mapping)

Lookup(k) ==
    replacement_mapping[CHOOSE i \in 1..Len(replacement_mapping) :
                            replacement_mapping[i][1] = k][2]

\* The path <dir>/name as the document sees it.
DocDir == IF img_public_path \in {"", "None"} THEN img_dir_name ELSE img_public_path

DocPath(name) == [type |-> "str", dir |-> DocDir, name |-> name]

\* The list element that put the entry of key k into the mapping.
Recorder(k) ==
    CHOOSE i \in Positions :
        /\ log[i].key = k
        /\ log[i].outcome \in {"stored", "reused"}
        /\ \A j \in 1..(i - 1) :
              ~(log[j].key = k /\ log[j].outcome \in {"stored", "reused"})

NoDuplicates == \A i, j \in 1..Len(images) : i # j => images[i] # images[j]

WritesOf(content) == {w \in 1..Len(writes) : writes[w][2] = content}

\* C1: when download_images returns a mapping, no two distinct references whose
\* content bytes differ are mapped to the same document path.
C1_DifferentContentDifferentPath ==
    Returned =>
        \A a, b \in 1..Len(replacement_mapping) :
            (/\ a # b
             /\ log[Recorder(replacement_mapping[a][1])].content #
                log[Recorder(replacement_mapping[b][1])].content)
            => replacement_mapping[a][2] # replacement_mapping[b][2]

\* C2: collision law. When two references with different content derive the same
\* raw filename f and both are fetched successfully in one run, the earlier one is
\* mapped to <dir>/f, the later one to <dir>/(md5(its own reference string)_f),
\* and the two document paths differ.
C2_CollisionLaw ==
    Returned =>
        \A i, j \in Positions :
            (/\ i < j
             /\ FetchedOk(i) /\ FetchedOk(j)
             /\ log[i].raw = log[j].raw
             /\ log[i].content # log[j].content)
            => /\ HasKey(log[i].ref) /\ HasKey(log[j].ref)
               /\ Lookup(log[i].ref) = DocPath(log[i].raw)
               /\ Lookup(log[j].ref) = DocPath(HashPrefixed(log[j].ref, log[j].raw))
               /\ Lookup(log[i].ref) # Lookup(log[j].ref)

\* C3: dedup law, same path. With deduplication enabled (here: the digest table of
\* images_extractor.py), any two references whose content is identical and that are
\* both fetched successfully are mapped to the same document path, the one finally
\* assigned to the first occurrence of that content.
C3_DedupSamePath ==
    (Returned /\ deduplication /\ variant = "extractor") =>
        \A i, j \in Positions :
            (/\ i < j
             /\ FetchedOk(i) /\ FetchedOk(j)
             /\ log[i].content = log[j].content
             /\ \A h \in 1..(i - 1) : ~(FetchedOk(h) /\ log[h].content = log[i].content))
            => /\ HasKey(log[i].key) /\ HasKey(log[j].key)
               /\ Lookup(log[j].key) = Lookup(log[i].key)

\* C4: dedup law, single write. With deduplication enabled, a reference whose
\* content digest was already seen gets a mapping entry and no file write, one whose
\* content is new gets the file written and the entry recorded: k successfully
\* fetched references with identical content cause exactly one write and k entries.
C4_DedupSingleWrite ==
    (Returned /\ deduplication) =>
        \A c \in Contents :
            (\E i \in Positions : FetchedOk(i) /\ log[i].content = c)
            => /\ Cardinality(WritesOf(c)) = 1
               /\ \A i \in Positions :
                     (FetchedOk(i) /\ log[i].content = c) => HasKey(log[i].key)

\* C5: for a reference list with no duplicate entries, an empty skip set and
\* deduplication disabled, all values of the returned mapping are pairwise distinct.
C5_ValuesPairwiseDistinct ==
    (Returned /\ NoDuplicates /\ skip_list = {} /\ ~deduplication) =>
        \A a, b \in 1..Len(replacement_mapping) :
            a # b => replacement_mapping[a][2] # replacement_mapping[b][2]

\* C6: for a reference list with no duplicate entries, an empty skip set and
\* deduplication disabled, the key set of the returned mapping is exactly the set
\* of input references whose fetch or read succeeded.
C6_KeysAreFetchedReferences ==
    (Returned /\ NoDuplicates /\ skip_list = {} /\ ~deduplication) =>
        Keys(replacement_mapping) = {log[i].ref : i \in {p \in Positions : FetchedOk(p)}}

\* C7: skip-list law. A string present verbatim in the skip set is never a key of
\* the returned mapping, and no fetch and no local read is attempted for a
\* reference that is in the skip set.
C7_SkipListLaw ==
    /\ Returned => \A s \in skip_list : ~HasKey(s)
    /\ \A i \in Positions : log[i].ref \in skip_list => ~FetchAttempted(i)

\* C8: with "skip all errors" false, a failed fetch or read aborts download_images:
\* the failure is the last thing the run did, no mapping is returned, and no later
\* reference is fetched or written.
C8_FailureAborts ==
    ~skip_all_errors =>
        \A i \in Positions :
            log[i].outcome = "failed" =>
                /\ pc = "raised"
                /\ i = Len(log)
                /\ img_num = i

C8_Witness ==
    /\ ~skip_all_errors
    /\ pc = "raised"
    /\ Len(log) = 2
    /\ Len(images) = 3
    /\ log[1].outcome = "stored"
    /\ log[2].outcome = "failed"
    /\ Len(replacement_mapping) = 1

\* C9: with "skip all errors" true, a failed fetch or read never aborts the run: the
\* failing step adds no mapping entry and writes no file, the loop goes on to the
\* next reference, and a run that returns has consumed the whole list.
C9_FailureSkipped ==
    /\ [][(/\ skip_all_errors
           /\ Len(log') = Len(log) + 1
           /\ log'[Len(log')].outcome = "failed")
          => /\ pc' = "loop"
             /\ img_num' = img_num + 1
             /\ replacement_mapping' = replacement_mapping
             /\ writes' = writes]_vars
    /\ [](Returned => img_num = Len(images))

C9_Witness ==
    /\ skip_all_errors
    /\ Returned
    /\ Len(log) = 3
    /\ log[1].outcome = "stored"
    /\ log[2].outcome = "failed"
    /\ log[3].outcome = "stored"
    /\ ~HasKey(log[2].key)
    /\ Len(replacement_mapping) = 2
    /\ Len(writes) = 2

\* C10, as stated: whenever the same reference string occurs at two positions of the
\* input list, download_images fails fatally at the second occurrence, whatever
\* happened to the first one.
C10_DuplicateAlwaysFatal ==
    \A i, j \in Positions :
        (i < j /\ log[i].ref = log[j].ref)
        => /\ log[j].outcome = "assert"
           /\ pc = "raised"
           /\ j = Len(log)

\* C10, amended: whenever the next reference of the list is already a key of the
\* mapping, download_images fails fatally at it: nothing is recorded or written and
\* no mapping is returned, whatever the skip set, the flags and the base URL.
C10_RecordedDuplicateFatal ==
    [][(InLoop /\ img_url \in Keys(replacement_mapping))
       => /\ pc' = "raised"
          /\ replacement_mapping' = replacement_mapping
          /\ writes' = writes]_vars

C10_Witness ==
    /\ pc = "raised"
    /\ Len(log) = 2
    /\ log[2].outcome = "assert"
    /\ log[1].outcome = "stored"
    /\ log[1].ref = log[2].ref
    /\ skip_list # {}
    /\ skip_all_errors
\* Whether the reference under the loop is local: it has no recognized URL scheme.
IsLocal(url) == IF variant = "extractor" THEN ~is_allowed_url_prefix(url) ELSE ~is_url(url)

\* C11: when a reference is local, local-image processing is disabled and a base URL
\* is configured, download_images rewrites it to base_url + "/" + reference and
\* obtains its content through the remote fetch, never through a local file read.
C11_RewrittenIsFetchedRemotely ==
    \A i \in Positions :
        (/\ IsLocal(log[i].ref)
         /\ ~process_local_images
         /\ article_base_url # <<>>
         /\ FetchAttempted(i))
        => /\ log[i].key = article_base_url \o log[i].ref
           /\ log[i].via = "remote"

C17_FilesHoldTheirContent ==
    Returned =>
        \A a \in 1..Len(replacement_mapping) :
            FileContent(writes, replacement_mapping[a][2].name) =
                log[Recorder(replacement_mapping[a][1])].content

\* C18: every key of the mapping returned by download_images is a reference string
\* exactly as it was supplied in the input list.
C18_KeysAreInputReferences ==
    Returned =>
        Keys(replacement_mapping) \subseteq {images[i] : i \in 1..Len(images)}
\* The filenames a mapping value can end in: a derived filename, possibly prefixed
\* with the md5 of the key.
IsFilename(name) == Len(name) \in {1, 2, 3} /\ name[Len(name)] = "x.png"

\* C14: in every reachable state of a run, each key occurs at most once in the
\* mapping and every value is the public-path override, if set, else the image
\* directory name, joined with a single filename; an entry once recorded is never
\* changed or removed by a later reference.
C14_MappingShape ==
    /\ [](\A a, b \in 1..Len(replacement_mapping) :
            a # b => replacement_mapping[a][1] # replacement_mapping[b][1])
    /\ [](\A a \in 1..Len(replacement_mapping) :
            /\ replacement_mapping[a][2].type = "str"
            /\ replacement_mapping[a][2].dir = DocDir
            /\ IsFilename(replacement_mapping[a][2].name))
    /\ [][/\ Len(replacement_mapping') >= Len(replacement_mapping)
          /\ \A a \in 1..Len(replacement_mapping) :
                replacement_mapping'[a] = replacement_mapping[a]]_vars

C14_Witness ==
    /\ Returned
    /\ img_public_path = "public"
    /\ Len(replacement_mapping) = 2
    /\ replacement_mapping[1][2].dir = "public"
    /\ replacement_mapping[2][2].name # replacement_mapping[1][2].name
    /\ Len(log) = 3
    /\ log[3].outcome = "stored"
    /\ log[3].key = replacement_mapping[1][1]

\* The requests.get calls of one reference follow _download_image's rule: at most
\* two, the first verifying certificates, a second one only after an SSLError of
\* the first and then without verification.
AttemptsFollowRule(a) ==
    /\ Len(a) <= 2
    /\ Len(a) >= 1 => a[1].verify
    /\ Len(a) = 2 => (a[1].result = "SSLError" /\ ~a[2].verify)

\* C15: for one remote reference _download_image makes at most two GET attempts, the
\* second only if the first raised a TLS certificate error, with verification
\* disabled and never retried; any other failure of the first attempt, a failure of
\* the retry, or a status other than 200 ends the fetch as a failure that falls
\* under the "skip all errors" policy.
C15_AtMostOneRetry ==
    /\ AttemptsFollowRule(attempts)
    /\ \A i \in Positions :
        /\ AttemptsFollowRule(log[i].attempts)
        /\ Len(log[i].attempts) >= 1 =>
            LET last == log[i].attempts[Len(log[i].attempts)].result
            IN  /\ last # "SSLError" \/ Len(log[i].attempts) = 2
                /\ last # "200" <=> log[i].outcome = "failed"
                /\ log[i].outcome = "failed" =>
                      IF skip_all_errors
                      THEN pc # "raised" \/ i < Len(log)
                      ELSE pc = "raised" /\ i = Len(log)

C15_Witness ==
    /\ Returned
    /\ Len(log) = 3
    /\ log[1].attempts = <<[verify |-> TRUE, result |-> "SSLError"],
                           [verify |-> FALSE, result |-> "SSLError"]>>
    /\ log[1].outcome = "failed"
    /\ log[2].attempts = <<[verify |-> TRUE, result |-> "ConnectionError"]>>
    /\ log[2].outcome = "failed"
    /\ log[3].attempts = <<[verify |-> TRUE, result |-> "SSLError"],
                           [verify |-> FALSE, result |-> "200"]>>
    /\ log[3].outcome = "stored"

TreatedAsPresent(i) ==
    IF variant = "extractor"
    THEN log[i].outcome = "reused"
    ELSE deduplication /\ log[i].outcome = "stored"

====
